---- MODULE Spec2Model ----
(***************************************************************************)
(* Event resolution of the controller's GraphQL API                        *)
(* (controller/graphql.go): the EventType enumeration, the interface       *)
(* type-resolution switch, the payload decoder, the per-field resolvers    *)
(* and the collaborator calls they make.                                   *)
(*                                                                         *)
(* A Go value is a record with a "shape" field holding its dynamic type;   *)
(* the nil interface and nil pointers are the record Nil.  A resolver's    *)
(* outcome is a record: the returned value, the returned error ("nil" for  *)
(* no error), whether the resolver panicked, whether the typed wrapper     *)
(* took its parent-type-mismatch fallback, and the collaborator calls made.*)
(***************************************************************************)
EXTENDS Integers, Sequences, FiniteSets, TLC

\* ------------------------------------------------------------------ bounds

\* Largest number of elements of one event list; its elements have the ids
\* 1..MaxList.
MaxList == 2

\* The largest id of an event in the event log.
MaxEventID == 3

\* ------------------------------------------------------------ identifiers

AppIDs == {"a1", "a2"}
ReleaseIDs == {"r1"}
DeploymentIDs == {"d1"}
ProviderIDs == {"p1"}

Nil == [shape |-> "nil"]

NoError == "nil"
ErrNotFound == "ErrNotFound"
ErrOther == "ErrOther"

\* ------------------------------------------------------------ enumeration

EventTypeApp == "app"
EventTypeAppDeletion == "app_deletion"
EventTypeAppRelease == "app_release"
EventTypeDeployment == "deployment"
EventTypeJob == "job"
EventTypeScale == "scale"
EventTypeRelease == "release"
EventTypeReleaseDeletion == "release_deletion"
EventTypeArtifact == "artifact"
EventTypeProvider == "provider"
EventTypeResource == "resource"
EventTypeResourceDeletion == "resource_deletion"
EventTypeResourceAppDeletion == "resource_app_deletion"
EventTypeRoute == "route"
EventTypeRouteDeletion == "route_deletion"
EventTypeDomainMigration == "domain_migration"
EventTypeClusterBackup == "cluster_backup"
EventTypeAppGarbageCollection == "app_garbage_collection"

\* The values of the EventType enum.
eventObjectTypeEnum ==
    { EventTypeApp, EventTypeAppDeletion, EventTypeAppRelease,
      EventTypeDeployment, EventTypeJob, EventTypeScale, EventTypeRelease,
      EventTypeReleaseDeletion, EventTypeArtifact, EventTypeProvider,
      EventTypeResource, EventTypeResourceDeletion,
      EventTypeResourceAppDeletion, EventTypeRoute, EventTypeRouteDeletion,
      EventTypeDomainMigration, EventTypeClusterBackup,
      EventTypeAppGarbageCollection }

\* A discriminator the event log can hold that the enumeration does not list
\* (ct.EventType is a string).
OtherEventTypes == {"sink"}

\* ------------------------------------------------- interface type resolution

NilObject == "nil"

ResolveType_DropsRouteDeletion(objectType) ==
    CASE objectType = EventTypeApp -> "EventApp"
      [] objectType = EventTypeAppDeletion -> "EventAppDeletion"
      [] objectType = EventTypeAppRelease -> "EventAppRelease"
      [] objectType = EventTypeDeployment -> "EventDeployment"
      [] objectType = EventTypeJob -> "EventJob"
      [] objectType = EventTypeScale -> "EventScale"
      [] objectType = EventTypeRelease -> "EventRelease"
      [] objectType = EventTypeReleaseDeletion -> "EventReleaseDeletion"
      [] objectType = EventTypeArtifact -> "EventArtifact"
      [] objectType = EventTypeProvider -> "EventProvider"
      [] objectType = EventTypeResource -> "EventResource"
      [] objectType = EventTypeResourceDeletion -> "EventResource"
      [] objectType = EventTypeResourceAppDeletion -> "EventResource"
      [] objectType = EventTypeRoute -> "EventRoute"
      [] objectType = EventTypeDomainMigration -> "EventDomainMigration"
      [] objectType = EventTypeClusterBackup -> "EventClusterBackup"
      [] objectType = EventTypeAppGarbageCollection -> "EventAppGarbageCollection"
      [] OTHER -> NilObject

\* eventInterface.ResolveType: the switch on event.ObjectType.
ResolveType(objectType) ==
    CASE objectType = EventTypeApp -> "EventApp"
      [] objectType = EventTypeAppDeletion -> "EventAppDeletion"
      [] objectType = EventTypeAppRelease -> "EventAppRelease"
      [] objectType = EventTypeDeployment -> "EventDeployment"
      [] objectType = EventTypeJob -> "EventJob"
      [] objectType = EventTypeScale -> "EventScale"
      [] objectType = EventTypeRelease -> "EventRelease"
      [] objectType = EventTypeReleaseDeletion -> "EventReleaseDeletion"
      [] objectType = EventTypeArtifact -> "EventArtifact"
      [] objectType = EventTypeProvider -> "EventProvider"
      [] objectType = EventTypeResource -> "EventResource"
      [] objectType = EventTypeResourceDeletion -> "EventResource"
      [] objectType = EventTypeResourceAppDeletion -> "EventResource"
      [] objectType = EventTypeRoute -> "EventRoute"
      [] objectType = EventTypeRouteDeletion -> "EventRoute"
      [] objectType = EventTypeDomainMigration -> "EventDomainMigration"
      [] objectType = EventTypeClusterBackup -> "EventClusterBackup"
      [] objectType = EventTypeAppGarbageCollection -> "EventAppGarbageCollection"
      [] OTHER -> NilObject

\* The dataType each event object is registered with (newEventObject calls).
eventDataType(eventObject) ==
    CASE eventObject = "EventApp" -> "App"
      [] eventObject = "EventAppDeletion" -> "AppDeletionEvent"
      [] eventObject = "EventAppRelease" -> "AppRelease"
      [] eventObject = "EventDeployment" -> "DeploymentEvent"
      [] eventObject = "EventJob" -> "Job"
      [] eventObject = "EventScale" -> "Scale"
      [] eventObject = "EventRelease" -> "Release"
      [] eventObject = "EventReleaseDeletion" -> "ReleaseDeletionEvent"
      [] eventObject = "EventArtifact" -> "Artifact"
      [] eventObject = "EventProvider" -> "Provider"
      [] eventObject = "EventResource" -> "Resource"
      [] eventObject = "EventRoute" -> "Route"
      [] eventObject = "EventDomainMigration" -> "DomainMigration"
      [] eventObject = "EventClusterBackup" -> "ClusterBackup"
      [] eventObject = "EventAppGarbageCollection" -> "AppGarbageCollection"
      [] OTHER -> NilObject

\* ------------------------------------------------------------ payload shapes

InvalidShape == "invalid"

\* The value decodeEventObjectData's switch assigns to obj: the Go type of
\* the target, "*T" for a pointer and "T" for a struct value.
decodeTarget_SplitsResourceDeletion(typ) ==
    CASE typ = EventTypeResourceDeletion -> "*ct.Provider"
      [] typ \in {EventTypeResource, EventTypeResourceAppDeletion} ->
            "*ct.Resource"
      [] typ \in {EventTypeRoute, EventTypeRouteDeletion} -> "router.Route"
      [] typ \in eventObjectTypeEnum -> "*ct.App"
      [] OTHER -> InvalidShape

decodeTarget(typ) ==
    CASE typ = EventTypeApp -> "*ct.App"
      [] typ = EventTypeAppDeletion -> "*ct.AppDeletionEvent"
      [] typ = EventTypeAppRelease -> "*ct.AppRelease"
      [] typ = EventTypeDeployment -> "*ct.DeploymentEvent"
      [] typ = EventTypeJob -> "*ct.Job"
      [] typ = EventTypeScale -> "*ct.Scale"
      [] typ = EventTypeRelease -> "*ct.Release"
      [] typ = EventTypeReleaseDeletion -> "*ct.ReleaseDeletionEvent"
      [] typ = EventTypeArtifact -> "*ct.Artifact"
      [] typ = EventTypeProvider -> "*ct.Provider"
      [] typ = EventTypeResource -> "*ct.Resource"
      [] typ = EventTypeResourceDeletion -> "*ct.Resource"
      [] typ = EventTypeResourceAppDeletion -> "*ct.Resource"
      [] typ = EventTypeRoute -> "router.Route"
      [] typ = EventTypeRouteDeletion -> "router.Route"
      [] typ = EventTypeDomainMigration -> "*ct.DomainMigration"
      [] typ = EventTypeClusterBackup -> "*ct.ClusterBackup"
      [] typ = EventTypeAppGarbageCollection -> "*ct.AppGarbageCollectionEvent"
      [] OTHER -> InvalidShape

IsPointer(shape) == shape \notin {"router.Route", InvalidShape, "nil"}

\* ------------------------------------------------------------- raw payloads

\* Event.Data, a json.RawMessage: text that is not JSON, the JSON null, a JSON
\* array, or a JSON object.  Of an object the model keeps whether it carries
\* the nested record of a wrapper shape (AppDeletionEvent, ReleaseDeletionEvent,
\* AppGarbageCollectionEvent) and the app identifier it holds.
RawPayloads ==
    {[json |-> "malformed"], [json |-> "null"], [json |-> "array"]}
    \cup {[json |-> "object", nested |-> n, AppID |-> a] :
             n \in BOOLEAN, a \in AppIDs \cup {""}}

\* The keys of a payload that the target shapes read; the zero values for the
\* JSON null, which json.Unmarshal stores nothing for.
payloadKeys(data) ==
    IF data.json = "object"
    THEN [nested |-> data.nested, AppID |-> data.AppID, ReleaseID |-> "r1",
          DeploymentID |-> "d1", ProviderID |-> "p1", ID |-> "o1",
          Apps |-> <<"a1", "a2">>, Releases |-> <<"r1">>]
    ELSE [nested |-> FALSE, AppID |-> "", ReleaseID |-> "", DeploymentID |-> "",
          ProviderID |-> "", ID |-> "", Apps |-> <<>>, Releases |-> <<>>]

\* The typed value json.Unmarshal leaves in a target of the given shape.
populate(shape, k) ==
    CASE shape = "*ct.App" -> [shape |-> shape, ID |-> k.AppID]
      [] shape = "*ct.AppDeletionEvent" ->
            [shape |-> shape, Error |-> "",
             AppDeletion |-> IF k.nested
                             THEN [shape |-> "*ct.AppDeletion", AppID |-> k.AppID]
                             ELSE Nil]
      [] shape = "*ct.AppRelease" ->
            [shape |-> shape, PrevRelease |-> Nil,
             Release |-> IF k.nested
                         THEN [shape |-> "*ct.Release", ID |-> k.ReleaseID]
                         ELSE Nil]
      [] shape = "*ct.DeploymentEvent" ->
            [shape |-> shape, AppID |-> k.AppID, DeploymentID |-> k.DeploymentID,
             ReleaseID |-> k.ReleaseID, Status |-> "pending"]
      [] shape = "*ct.Job" ->
            [shape |-> shape, UUID |-> k.ID, AppID |-> k.AppID,
             ReleaseID |-> k.ReleaseID]
      [] shape = "*ct.Scale" -> [shape |-> shape, ReleaseID |-> k.ReleaseID]
      [] shape = "*ct.Release" -> [shape |-> shape, ID |-> k.ReleaseID]
      [] shape = "*ct.ReleaseDeletionEvent" ->
            [shape |-> shape, Error |-> "",
             ReleaseDeletion |-> IF k.nested
                                 THEN [shape |-> "*ct.ReleaseDeletion",
                                       AppID |-> k.AppID,
                                       ReleaseID |-> k.ReleaseID,
                                       RemainingApps |-> k.Apps]
                                 ELSE Nil]
      [] shape = "*ct.Resource" ->
            [shape |-> shape, ID |-> k.ID, ProviderID |-> k.ProviderID]
      [] shape = "*ct.AppGarbageCollectionEvent" ->
            [shape |-> shape, Error |-> "",
             AppGarbageCollection |->
                 IF k.nested
                 THEN [shape |-> "*ct.AppGarbageCollection", AppID |-> k.AppID,
                       DeletedReleases |-> k.Releases]
                 ELSE Nil]
      [] OTHER -> [shape |-> shape, ID |-> k.ID]

\* json.Unmarshal(data, obj): a syntax error for text that is not JSON, an
\* InvalidUnmarshalError for a target that is not a pointer, an
\* UnmarshalTypeError for a JSON array given a struct.
jsonUnmarshal(data, shape) ==
    IF data.json = "malformed" THEN [err |-> "SyntaxError", obj |-> Nil]
    ELSE IF ~IsPointer(shape) THEN [err |-> "InvalidUnmarshalError", obj |-> Nil]
    ELSE IF data.json = "array" THEN [err |-> "UnmarshalTypeError", obj |-> Nil]
    ELSE [err |-> NoError, obj |-> populate(shape, payloadKeys(data))]

ErrInvalidEventType == "Invalid EventType"

decodeEventObjectData_DefaultsToApp(typ, data) ==
    LET obj == IF decodeTarget(typ) = InvalidShape THEN "*ct.App"
               ELSE decodeTarget(typ)
        u == jsonUnmarshal(data, obj)
    IN  IF u.err # NoError THEN [val |-> Nil, err |-> u.err]
        ELSE [val |-> u.obj, err |-> NoError]

\* decodeEventObjectData: (value, error).
decodeEventObjectData(typ, data) ==
    LET obj == decodeTarget(typ)
        u == jsonUnmarshal(data, obj)
    IN  IF obj = InvalidShape THEN [val |-> Nil, err |-> ErrInvalidEventType]
        ELSE IF u.err # NoError THEN [val |-> Nil, err |-> u.err]
        ELSE [val |-> u.obj, err |-> NoError]

\* ------------------------------------------------------------------ outcomes

\* What one field resolution gives: resolved is FALSE when no resolver was
\* run because the value has no object type.
Outcome(val, err, calls) ==
    [val |-> val, err |-> err, panicked |-> FALSE, fallback |-> FALSE,
     resolved |-> TRUE, calls |-> calls]

Return(val) == Outcome(val, NoError, <<>>)

Panicked(calls) == [Outcome(Nil, NoError, calls) EXCEPT !.panicked = TRUE]

Fallback == [Return(Nil) EXCEPT !.fallback = TRUE]

Unresolved == [Return(Nil) EXCEPT !.resolved = FALSE]

StringVal(s) == [shape |-> "string", v |-> s]

IntVal(n) == [shape |-> "int", v |-> n]

ListVal(l) == [shape |-> "list", v |-> l]

\* --------------------------------------------------------------------- state

VARIABLES
    appRepo,        \* ids of the apps the app repository holds
    releaseRepo,    \* ids of the releases the release repository holds
    deploymentRepo, \* ids of the deployments the deployment repository holds
    providerRepo,   \* ids of the providers the provider repository holds
    op,             \* the resolution in progress, [kind |-> "idle"] for none
    out             \* what that resolution gave

vars == <<appRepo, releaseRepo, deploymentRepo, providerRepo, op, out>>

repos == <<appRepo, releaseRepo, deploymentRepo, providerRepo>>

\* ------------------------------------------------------------- collaborators

\* A collaborator call, with the error it comes back with once made.
Call(repo, method, arg) ==
    [repo |-> repo, method |-> method, arg |-> arg, err |-> NoError]

\* A fetch by id: the entity, ErrNotFound, or another error when the
\* collaborator fails.
repoGet(call, exists, entity, fault) ==
    IF fault THEN Outcome(Nil, ErrOther, <<[call EXCEPT !.err = ErrOther]>>)
    ELSE IF exists THEN Outcome(entity, NoError, <<call>>)
    ELSE Outcome(Nil, ErrNotFound, <<[call EXCEPT !.err = ErrNotFound]>>)

appRepoGet(id, fault) ==
    repoGet(Call("appRepo", "Get", id), id \in appRepo,
            [shape |-> "*ct.App", ID |-> id], fault)

\* The release an app currently runs: not all apps have a release.
currentReleaseOf(appID) == IF appID = "a1" THEN "r1" ELSE ""

appRepoGetRelease(id, fault) ==
    repoGet(Call("appRepo", "GetRelease", id),
            id \in appRepo /\ currentReleaseOf(id) \in releaseRepo,
            [shape |-> "*ct.Release", ID |-> currentReleaseOf(id)], fault)

releaseRepoGet(id, fault) ==
    repoGet(Call("releaseRepo", "Get", id), id \in releaseRepo,
            [shape |-> "*ct.Release", ID |-> id], fault)

releaseRepoGetDeleted(id, fault) ==
    repoGet(Call("releaseRepo", "GetDeleted", id), id \in ReleaseIDs,
            [shape |-> "*ct.Release", ID |-> id], fault)

deploymentRepoGet(id, fault) ==
    repoGet(Call("deploymentRepo", "Get", id), id \in deploymentRepo,
            [shape |-> "*ct.Deployment", ID |-> id, AppID |-> "a1",
             OldReleaseID |-> "", NewReleaseID |-> "r1"], fault)

providerRepoGet(id, fault) ==
    repoGet(Call("providerRepo", "Get", id), id \in providerRepo,
            [shape |-> "*ct.Provider", ID |-> id], fault)

\* The ids of a set, the largest first.
RECURSIVE descending(_)
descending(ids) ==
    IF ids = {} THEN <<>>
    ELSE LET m == CHOOSE i \in ids : \A j \in ids : j <= i
         IN  <<m>> \o descending(ids \ {m})

\* The event repository's listing: the events of the log below beforeID and
\* above sinceID, the most recent first, at most count of them when count is
\* positive.
eventRepoListEvents(log, appID, objectTypes, objectID, beforeID, sinceID, count, fault) ==
    LET call == Call("eventRepo", "ListEvents",
                     [appID |-> appID, objectTypes |-> objectTypes,
                      objectID |-> objectID, beforeID |-> beforeID,
                      sinceID |-> sinceID, count |-> count])
        match == {i \in log : /\ beforeID # Nil => i < beforeID.v
                              /\ sinceID # Nil => i > sinceID.v}
        all == descending(match)
        n == IF count > 0 /\ count < Len(all) THEN count ELSE Len(all)
    IN  IF fault THEN Outcome(Nil, ErrOther, <<[call EXCEPT !.err = ErrOther]>>)
        ELSE Outcome(ListVal(SubSeq(all, 1, n)), NoError, <<call>>)

\* The releases of an app, in one call.
releaseRepoAppList(appID, fault) ==
    LET call == Call("releaseRepo", "AppList", appID)
        ids == IF currentReleaseOf(appID) \in releaseRepo
               THEN <<currentReleaseOf(appID)>> ELSE <<>>
    IN  IF fault THEN Outcome(Nil, ErrOther, <<[call EXCEPT !.err = ErrOther]>>)
        ELSE Outcome(ListVal([i \in 1..Len(ids) |->
                                 [shape |-> "*ct.Release", ID |-> ids[i]]]),
                     NoError, <<call>>)

\* The formations of an app, in one call: one for each of its releases.
formationRepoList(appID, fault) ==
    LET call == Call("formationRepo", "List", appID)
        ids == IF currentReleaseOf(appID) \in releaseRepo
               THEN <<currentReleaseOf(appID)>> ELSE <<>>
    IN  IF fault THEN Outcome(Nil, ErrOther, <<[call EXCEPT !.err = ErrOther]>>)
        ELSE Outcome(ListVal([i \in 1..Len(ids) |->
                                 [shape |-> "*ct.Formation", AppID |-> appID,
                                  ReleaseID |-> ids[i]]]),
                     NoError, <<call>>)

\* A write of an entity: on success the repository stores it, under a new id
\* when it came without one, and the caller's pointer shows what was stored.
repoAdd(repo, entity, newID, fault) ==
    LET stored == IF entity.ID = "" THEN [entity EXCEPT !.ID = newID]
                  ELSE entity
        call == Call(repo, "Add", stored)
    IN  IF fault THEN Outcome(entity, ErrOther, <<[call EXCEPT !.err = ErrOther]>>)
        ELSE Outcome(stored, NoError, <<call>>)

\* The formation repository stores a formation under its app and release.
formationRepoAdd(formation, fault) ==
    LET call == Call("formationRepo", "Add", formation)
    IN  IF fault
        THEN Outcome(formation, ErrOther, <<[call EXCEPT !.err = ErrOther]>>)
        ELSE Outcome(formation, NoError, <<call>>)

\* ------------------------------------------------------------ entity fields

appObject_id(app) == Return(StringVal(app.ID))

appObject_current_release_PropagatesNotFound(app, fault) ==
    appRepoGetRelease(app.ID, fault)

appObject_current_release(app, fault) ==
    LET r == appRepoGetRelease(app.ID, fault)
    IN  IF r.err = ErrNotFound THEN Outcome(Nil, NoError, r.calls) ELSE r

appObject_releases(app, fault) == releaseRepoAppList(app.ID, fault)

appObject_formations(app, fault) == formationRepoList(app.ID, fault)

deploymentObject_id(d) == Return(StringVal(d.ID))

deploymentObject_app(d, fault) ==
    LET r == appRepoGet(d.AppID, fault)
    IN  IF r.err = ErrNotFound THEN Outcome(Nil, NoError, r.calls) ELSE r

deploymentObject_old_release(d, fault) ==
    LET r == releaseRepoGet(d.OldReleaseID, fault)
    IN  IF r.err = ErrNotFound THEN Outcome(Nil, NoError, r.calls) ELSE r

deploymentObject_new_release(d, fault) ==
    LET r == releaseRepoGet(d.NewReleaseID, fault)
    IN  IF r.err = ErrNotFound THEN Outcome(Nil, NoError, r.calls) ELSE r

\* api.artifactRepo.ListIDs: a map from each id the repository holds to its
\* artifact (the keys of a map are distinct).
artifactRepoListIDs(ids, fault) ==
    LET found == {ids[i] : i \in 1..Len(ids)} \cap {"art1"}
        call == Call("artifactRepo", "ListIDs", ids)
    IN  IF fault THEN Outcome(Nil, ErrOther, <<[call EXCEPT !.err = ErrOther]>>)
        ELSE Outcome([id \in found |-> [shape |-> "*ct.Artifact", ID |-> id]],
                     NoError, <<call>>)

\* make([]*ct.Artifact, len(artifactMap)), then artifacts[i] = artifactMap[id]
\* for the i-th id: an index past the length of the map is out of range, an
\* id that is not a key reads as nil.
listArtifacts(artifactIDs, fault) ==
    LET r == artifactRepoListIDs(artifactIDs, fault)
        artifactMap == r.val
        n == Cardinality(DOMAIN artifactMap)
    IN  IF r.err # NoError THEN Outcome(Nil, r.err, r.calls)
        ELSE IF Len(artifactIDs) > n THEN Panicked(r.calls)
        ELSE Outcome(ListVal([i \in 1..n |->
                        IF i > Len(artifactIDs) THEN Nil
                        ELSE IF artifactIDs[i] \in DOMAIN artifactMap
                             THEN artifactMap[artifactIDs[i]] ELSE Nil]),
                     NoError, r.calls)

releaseObject_artifacts(release, fault) ==
    IF Len(release.ArtifactIDs) = 0 THEN Return(ListVal(<<>>))
    ELSE listArtifacts(release.ArtifactIDs, fault)

deploymentObject_status(d) == Return(StringVal(d.Status))

deploymentObject_deploy_timeout(d) == Return(StringVal(d.Status))

jobObject_uuid(job) == Return(StringVal(job.UUID))

jobObject_app_AbsentOnNotFound(job, fault) ==
    LET r == appRepoGet(job.AppID, fault)
    IN  IF r.err = ErrNotFound THEN Outcome(Nil, NoError, r.calls) ELSE r

jobObject_app(job, fault) == appRepoGet(job.AppID, fault)

jobObject_release(job, fault) ==
    LET r == releaseRepoGet(job.ReleaseID, fault)
    IN  IF r.err = ErrNotFound THEN Outcome(Nil, NoError, r.calls) ELSE r

resourceObject_id(r) == Return(StringVal(r.ID))

resourceObject_provider(r, fault) == providerRepoGet(r.ProviderID, fault)

\* ct.RouteParentRefPrefix, the marker of a route that belongs to an app.
RouteParentRefPrefix == "controller/apps/"

\* strings.HasPrefix
HasPrefix(str, prefix) ==
    /\ Len(str) >= Len(prefix)
    /\ SubSeq(str, 1, Len(prefix)) = prefix

\* strings.TrimPrefix: str without the leading prefix, str itself when it
\* does not start with it.
TrimPrefix(str, prefix) ==
    IF HasPrefix(str, prefix) THEN SubSeq(str, Len(prefix) + 1, Len(str))
    ELSE str

routeObject_app_AlwaysLooksUp(r, fault) ==
    appRepoGet(TrimPrefix(r.ParentRef, RouteParentRefPrefix), fault)

routeObject_app_TrimsEveryMarker(r, fault) ==
    IF HasPrefix(r.ParentRef, RouteParentRefPrefix)
    THEN appRepoGet(TrimPrefix(TrimPrefix(r.ParentRef, RouteParentRefPrefix),
                               RouteParentRefPrefix), fault)
    ELSE Return(Nil)

routeObject_app(r, fault) ==
    IF HasPrefix(r.ParentRef, RouteParentRefPrefix)
    THEN appRepoGet(TrimPrefix(r.ParentRef, RouteParentRefPrefix), fault)
    ELSE Return(Nil)

formationObject_app(f, fault) == appRepoGet(f.AppID, fault)

formationObject_release(f, fault) == releaseRepoGet(f.ReleaseID, fault)

\* -------------------------------------------------------- event data fields

appDeletionObject_app(ad, fault) == appRepoGet(ad.AppID, fault)

appDeletionEventObject_app_deletion(event) == Return(event.AppDeletion)

appDeletionEventObject_error(event) == Return(StringVal(event.Error))

appReleaseObject_prev_release(ar) == Return(ar.PrevRelease)

appReleaseObject_release(ar) == Return(ar.Release)

deploymentEventObject_app(event, fault) == appRepoGet(event.AppID, fault)

deploymentEventObject_deployment(event, fault) ==
    deploymentRepoGet(event.DeploymentID, fault)

deploymentEventObject_release(event, fault) ==
    releaseRepoGet(event.ReleaseID, fault)

deploymentEventObject_status(event) == Return(StringVal(event.Status))

scaleObject_release(s, fault) == releaseRepoGet(s.ReleaseID, fault)

releaseDeletionObject_app(rd, fault) == appRepoGet(rd.AppID, fault)

releaseDeletionObject_release(rd, fault) ==
    releaseRepoGetDeleted(rd.ReleaseID, fault)

RECURSIVE remainingAppsLoop(_, _, _, _)
remainingAppsLoop(ids, fault, apps, calls) ==
    IF ids = <<>> THEN Outcome(ListVal(apps), NoError, calls)
    ELSE LET r == appRepoGet(Head(ids), fault)
         IN  IF r.err # NoError THEN Outcome(Nil, r.err, calls \o r.calls)
             ELSE remainingAppsLoop(Tail(ids), fault, Append(apps, r.val),
                                    calls \o r.calls)

releaseDeletionObject_remaining_apps(rd, fault) ==
    remainingAppsLoop(rd.RemainingApps, fault, <<>>, <<>>)

releaseDeletionEventObject_release_deletion(event) ==
    Return(event.ReleaseDeletion)

releaseDeletionEventObject_error(event) == Return(StringVal(event.Error))

appGarbageCollectionObject_app(agc, fault) == appRepoGet(agc.AppID, fault)

RECURSIVE deletedReleasesLoop(_, _, _, _)
deletedReleasesLoop(ids, fault, releases, calls) ==
    IF ids = <<>> THEN Outcome(ListVal(releases), NoError, calls)
    ELSE LET r == releaseRepoGet(Head(ids), fault)
         IN  IF r.err # NoError THEN Outcome(Nil, r.err, calls \o r.calls)
             ELSE deletedReleasesLoop(Tail(ids), fault, Append(releases, r.val),
                                      calls \o r.calls)

appGarbageCollectionObject_deleted_releases(agc, fault) ==
    deletedReleasesLoop(agc.DeletedReleases, fault, <<>>, <<>>)

\* ------------------------------------------------------------- event fields

eventObject_id(event) == Return(IntVal(event.id))

eventObject_object_type_LoadsApp(event) ==
    Outcome(StringVal(event.object_type), NoError,
            appRepoGet(event.app_id, FALSE).calls)

eventObject_object_type(event) == Return(StringVal(event.object_type))

eventObject_object_id(event) == Return(StringVal(event.object_id))

eventObject_created_at(event) == Return(StringVal(event.created_at))

eventObject_app(event, fault) ==
    IF event.app_id = "" THEN Return(Nil) ELSE appRepoGet(event.app_id, fault)

eventObject_data_OverwritesAppID(event) ==
    LET d == decodeEventObjectData(event.object_type, event.data)
    IN  IF event.object_type = EventTypeReleaseDeletion
        THEN IF d.val = Nil \/ d.val.ReleaseDeletion = Nil THEN Panicked(<<>>)
             ELSE IF event.app_id # ""
             THEN Outcome([d.val EXCEPT !.ReleaseDeletion.AppID = event.app_id],
                          d.err, <<>>)
             ELSE Outcome(d.val, d.err, <<>>)
        ELSE Outcome(d.val, d.err, <<>>)

eventObject_data_NoBackfill(event) ==
    LET d == decodeEventObjectData(event.object_type, event.data)
    IN  IF event.object_type = EventTypeReleaseDeletion
        THEN IF d.val = Nil \/ d.val.ReleaseDeletion = Nil THEN Panicked(<<>>)
             ELSE Outcome(d.val, d.err, <<>>)
        ELSE Outcome(d.val, d.err, <<>>)

\* The data resolver: decode, then for a release deletion the type assertion
\* data.(*ct.ReleaseDeletionEvent), which panics on the nil interface a failed
\* decode returns, the read of rd.AppID, which panics on a nil rd, and the
\* backfill of rd.AppID through the pointer.
eventObject_data(event) ==
    LET d == decodeEventObjectData(event.object_type, event.data)
    IN  IF event.object_type = EventTypeReleaseDeletion
        THEN IF d.val = Nil \/ d.val.ReleaseDeletion = Nil THEN Panicked(<<>>)
             ELSE IF d.val.ReleaseDeletion.AppID = "" /\ event.app_id # ""
             THEN Outcome([d.val EXCEPT !.ReleaseDeletion.AppID = event.app_id],
                          d.err, <<>>)
             ELSE Outcome(d.val, d.err, <<>>)
        ELSE Outcome(d.val, d.err, <<>>)


\* ----------------------------------------------------------- field dispatch

\* ------------------------------------------------------------ event listing

\* An argument the request leaves out: p.Args has no such key.
Absent == [shape |-> "absent"]

\* var beforeID *int64, set when the argument is there and is an int; the
\* same for sinceID.
cursorArg(arg) ==
    IF arg # Absent /\ arg.shape = "int" THEN [shape |-> "*int64", v |-> arg.v]
    ELSE Nil

\* var count int, set when the argument is there and is an int.
countArg(arg) == IF arg # Absent /\ arg.shape = "int" THEN arg.v ELSE 0

\* var objectTypes []string, appended to from the elements of the argument.
objectTypesArg(arg) ==
    IF arg = Absent THEN <<>> ELSE [i \in 1..Len(arg.v) |-> arg.v[i].v]

\* i.([]interface{}) and v.(string) of its elements panic on another type.
objectTypesPanics(arg) ==
    /\ arg # Absent
    /\ \/ arg.shape # "list"
       \/ \E i \in 1..Len(arg.v) : arg.v[i].shape # "string"

\* var s string, set from i.(string), which panics on another type.
stringArg(arg) == IF arg = Absent THEN "" ELSE arg.v

stringArgPanics(arg) == arg # Absent /\ arg.shape # "string"

rootQuery_events_SwapsCursors(args, log, fault) ==
    IF \/ stringArgPanics(args.app_id)
       \/ objectTypesPanics(args.object_types)
       \/ stringArgPanics(args.object_id)
    THEN Panicked(<<>>)
    ELSE eventRepoListEvents(log, stringArg(args.app_id),
                             objectTypesArg(args.object_types),
                             stringArg(args.object_id),
                             cursorArg(args.since_id),
                             cursorArg(args.before_id),
                             countArg(args.count), fault)

rootQuery_events_DropsCount(args, log, fault) ==
    IF \/ stringArgPanics(args.app_id)
       \/ objectTypesPanics(args.object_types)
       \/ stringArgPanics(args.object_id)
    THEN Panicked(<<>>)
    ELSE eventRepoListEvents(log, stringArg(args.app_id),
                             objectTypesArg(args.object_types),
                             stringArg(args.object_id),
                             cursorArg(args.before_id),
                             cursorArg(args.since_id), 0, fault)

\* The events field of the root query.
rootQuery_events(args, log, fault) ==
    IF \/ stringArgPanics(args.app_id)
       \/ objectTypesPanics(args.object_types)
       \/ stringArgPanics(args.object_id)
    THEN Panicked(<<>>)
    ELSE eventRepoListEvents(log, stringArg(args.app_id),
                             objectTypesArg(args.object_types),
                             stringArg(args.object_id),
                             cursorArg(args.before_id),
                             cursorArg(args.since_id),
                             countArg(args.count), fault)

appObject_events_ReadsAppID(app, args, log, fault) ==
    IF args.app_id # Absent THEN rootQuery_events(args, log, fault)
    ELSE rootQuery_events([args EXCEPT !.app_id = StringVal(app.ID)], log, fault)

\* The events field of an app: the app's id is the owning-app filter, the
\* app_id argument is not read.
appObject_events(app, args, log, fault) ==
    IF \/ objectTypesPanics(args.object_types)
       \/ stringArgPanics(args.object_id)
    THEN Panicked(<<>>)
    ELSE eventRepoListEvents(log, app.ID, objectTypesArg(args.object_types),
                             stringArg(args.object_id),
                             cursorArg(args.before_id),
                             cursorArg(args.since_id),
                             countArg(args.count), fault)

\* ------------------------------------------------------------- root lookups

\* The arguments of these fields are declared NonNull(String): the resolver
\* is run with strings.

rootQuery_formation(args, fault1, fault2) ==
    LET app == appRepoGet(args.app, fault1)
        formation ==
            repoGet(Call("formationRepo", "Get", <<app.val.ID, args.release>>),
                    args.release \in releaseRepo,
                    [shape |-> "*ct.Formation", AppID |-> app.val.ID,
                     ReleaseID |-> args.release], fault2)
    IN  IF app.err # NoError THEN Outcome(Nil, app.err, app.calls)
        ELSE Outcome(formation.val, formation.err, app.calls \o formation.calls)

rootQuery_expanded_formation(args, fault1, fault2) ==
    LET app == appRepoGet(args.app, fault1)
        formation ==
            repoGet(Call("formationRepo", "GetExpanded",
                         <<app.val.ID, args.release>>),
                    args.release \in releaseRepo,
                    [shape |-> "*ct.ExpandedFormation", AppID |-> app.val.ID,
                     ReleaseID |-> args.release], fault2)
    IN  IF app.err # NoError THEN Outcome(Nil, app.err, app.calls)
        ELSE Outcome(formation.val, formation.err, app.calls \o formation.calls)

rootQuery_job_IgnoresAppError(args, fault1, fault2) ==
    LET app == appRepoGet(args.app, fault1)
        job == repoGet(Call("jobRepo", "Get", args.id), args.id = "j1",
                       [shape |-> "*ct.Job", UUID |-> args.id], fault2)
    IN  Outcome(job.val, job.err, app.calls \o job.calls)

rootQuery_job(args, fault1, fault2) ==
    LET app == appRepoGet(args.app, fault1)
        job == repoGet(Call("jobRepo", "Get", args.id), args.id = "j1",
                       [shape |-> "*ct.Job", UUID |-> args.id], fault2)
    IN  IF app.err # NoError THEN Outcome(Nil, app.err, app.calls)
        ELSE Outcome(job.val, job.err, app.calls \o job.calls)

rootQuery_resource(args, fault1, fault2) ==
    LET provider == providerRepoGet(args.provider, fault1)
        resource ==
            repoGet(Call("resourceRepo", "Get", args.id), args.id = "res1",
                    [shape |-> "*ct.Resource", ID |-> args.id], fault2)
    IN  IF provider.err # NoError
        THEN Outcome(Nil, provider.err, provider.calls)
        ELSE Outcome(resource.val, resource.err,
                     provider.calls \o resource.calls)

\* strings.SplitN(s, sep, n) for a separator of one character and n > 0: at
\* most n pieces, the last one the unsplit remainder; one piece, s itself,
\* when s has no separator.
RECURSIVE SplitN(_, _, _)
SplitN(s, sep, n) ==
    LET at == {i \in 1..Len(s) : SubSeq(s, i, i) = sep}
        i == CHOOSE k \in at : \A l \in at : k <= l
    IN  IF n = 1 \/ at = {} THEN <<s>>
        ELSE <<SubSeq(s, 1, i - 1)>> \o SplitN(SubSeq(s, i + 1, Len(s)), sep, n - 1)

\* parts[0] and parts[1] of the split id: parts[1] is out of range when the
\* split gave one piece.
rootQuery_route(args, fault) ==
    LET parts == SplitN(args.id, "/", 2)
    IN  IF Len(parts) < 2 THEN Panicked(<<>>)
        ELSE repoGet(Call("api", "getRoute", <<args.app, parts[1], parts[2]>>),
                     parts[2] = "rt1",
                     [shape |-> "*router.Route", ID |-> parts[2],
                      Type |-> parts[1]], fault)

rootQuery(name, args, fault1, fault2) ==
    CASE name = "formation" -> rootQuery_formation(args, fault1, fault2)
      [] name = "expanded_formation" ->
            rootQuery_expanded_formation(args, fault1, fault2)
      [] name = "job" -> rootQuery_job(args, fault1, fault2)
      [] name = "resource" -> rootQuery_resource(args, fault1, fault2)
      [] name = "route" -> rootQuery_route(args, fault1)

\* ---------------------------------------------------------------- mutations

\* The values the object scalars (newObjectType) hand to a resolver, and the
\* map types the resolvers assert.
MapOfStrings == [shape |-> "map[string]string"]

MapOfTags == [shape |-> "map[string]map[string]string"]

MapOfValues(values) == [shape |-> "map[string]interface{}", values |-> values]

ObjectFields == [shape |-> "[]*ast.ObjectField"]

\* json.Marshal of an argument value: a value JSON cannot represent is an
\* error, a map is a JSON object, a slice a JSON array.
jsonMarshal(v) ==
    IF v.shape = "map[string]interface{}" /\ v.values = "NaN"
    THEN [err |-> "UnsupportedValueError", b |-> Nil]
    ELSE IF v.shape = "map[string]interface{}"
    THEN [err |-> NoError, b |-> [json |-> "object", values |-> v.values]]
    ELSE IF v.shape \in {"map[string]string", "map[string]map[string]string"}
    THEN [err |-> NoError, b |-> [json |-> "object", values |-> "strings"]]
    ELSE [err |-> NoError, b |-> [json |-> "array"]]

\* json.Unmarshal into a map whose elements are of type elem: only a JSON
\* object whose values are of that type is taken.
jsonUnmarshalMap(b, elem) ==
    IF b.json = "object" /\ b.values = elem THEN NoError
    ELSE "UnmarshalTypeError"

\* v.(T) of a value that is there.
assertionPanics(arg, shape) == arg # Absent /\ arg.shape # shape

\* stringValue and metaValue of createArtifact.
stringValue(arg) == IF arg = Absent THEN "" ELSE arg.v

rootMutation_createArtifact(args, newID, fault) ==
    IF \/ assertionPanics(args.id, "string")
       \/ assertionPanics(args.type, "string")
       \/ assertionPanics(args.uri, "string")
       \/ assertionPanics(args.meta, "map[string]string")
    THEN Panicked(<<>>)
    ELSE repoAdd("artifactRepo",
                 [shape |-> "*ct.Artifact", ID |-> stringValue(args.id),
                  Type |-> stringValue(args.type), URI |-> stringValue(args.uri),
                  Meta |-> args.meta], newID, fault)

rootMutation_createRelease(args, newID, fault) ==
    IF \/ assertionPanics(args.id, "string")
       \/ objectTypesPanics(args.artifacts)
       \/ assertionPanics(args.env, "map[string]string")
       \/ assertionPanics(args.meta, "map[string]string")
    THEN Panicked(<<>>)
    ELSE LET m == IF args.processes = Absent THEN [err |-> NoError, b |-> Nil]
                  ELSE jsonMarshal(args.processes)
             u == IF args.processes = Absent \/ m.err # NoError THEN NoError
                  ELSE jsonUnmarshalMap(m.b, "objects")
         IN  IF m.err # NoError THEN Outcome(Nil, m.err, <<>>)
             ELSE IF u # NoError THEN Outcome(Nil, u, <<>>)
             ELSE repoAdd("releaseRepo",
                          [shape |-> "*ct.Release", ID |-> stringValue(args.id),
                           ArtifactIDs |-> objectTypesArg(args.artifacts),
                           Env |-> args.env, Meta |-> args.meta,
                           Processes |-> args.processes], newID, fault)

\* The formation argument the resolver also reads is not among the declared
\* arguments, so p.Args never has it.
rootMutation_putFormation(args, fault) ==
    IF \/ assertionPanics(args.app, "string")
       \/ assertionPanics(args.release, "string")
    THEN Panicked(<<>>)
    ELSE LET m == IF args.processes = Absent THEN [err |-> NoError, b |-> Nil]
                  ELSE jsonMarshal(args.processes)
             u == IF args.processes = Absent \/ m.err # NoError THEN NoError
                  ELSE jsonUnmarshalMap(m.b, "numbers")
         IN  IF m.err # NoError THEN Outcome(Nil, m.err, <<>>)
             ELSE IF u # NoError THEN Outcome(Nil, u, <<>>)
             ELSE IF assertionPanics(args.tags, "map[string]map[string]string")
             THEN Panicked(<<>>)
             ELSE formationRepoAdd(
                      [shape |-> "*ct.Formation", AppID |-> stringValue(args.app),
                       ReleaseID |-> stringValue(args.release),
                       Processes |-> args.processes, Tags |-> args.tags], fault)

\* The event objects newEventObject registers.
EventObjects ==
    {"EventApp", "EventAppDeletion", "EventAppRelease", "EventDeployment",
     "EventJob", "EventScale", "EventRelease", "EventReleaseDeletion",
     "EventArtifact", "EventProvider", "EventResource", "EventRoute",
     "EventDomainMigration", "EventClusterBackup", "EventAppGarbageCollection"}

\* The parent type the typed wrapper of an object's resolvers asserts
\* (p.Source.(*T)).
wrapperShape(obj) ==
    CASE obj \in EventObjects -> "*ct.Event"
      [] obj = "Formation" -> "*ct.Formation"
      [] obj = "Artifact" -> "*ct.Artifact"
      [] obj = "Release" -> "*ct.Release"
      [] obj = "App" -> "*ct.App"
      [] obj = "Deployment" -> "*ct.Deployment"
      [] obj = "Job" -> "*ct.Job"
      [] obj = "Provider" -> "*ct.Provider"
      [] obj = "Resource" -> "*ct.Resource"
      [] obj = "Route" -> "*router.Route"
      [] obj = "AppDeletionEvent" -> "*ct.AppDeletionEvent"
      [] obj = "AppDeletion" -> "*ct.AppDeletion"
      [] obj = "AppRelease" -> "*ct.AppRelease"
      [] obj = "DeploymentEvent" -> "*ct.DeploymentEvent"
      [] obj = "Scale" -> "*ct.Scale"
      [] obj = "ReleaseDeletionEvent" -> "*ct.ReleaseDeletionEvent"
      [] obj = "ReleaseDeletion" -> "*ct.ReleaseDeletion"
      [] obj = "DomainMigration" -> "*ct.DomainMigration"
      [] obj = "ClusterBackup" -> "*ct.ClusterBackup"
      [] obj = "AppGarbageCollection" -> "*ct.AppGarbageCollection"
      [] OTHER -> "none"

\* The function a field's Resolve wraps, applied to a parent of the type the
\* wrapper asserts.
fieldFn(obj, field, src, fault) ==
    CASE obj \in EventObjects /\ field = "id" -> eventObject_id(src)
      [] obj \in EventObjects /\ field = "object_type" ->
            eventObject_object_type(src)
      [] obj \in EventObjects /\ field = "object_id" -> eventObject_object_id(src)
      [] obj \in EventObjects /\ field = "created_at" ->
            eventObject_created_at(src)
      [] obj \in EventObjects /\ field = "app" -> eventObject_app(src, fault)
      [] obj \in EventObjects /\ field = "data" -> eventObject_data(src)
      [] obj = "App" /\ field = "id" -> appObject_id(src)
      [] obj = "App" /\ field = "current_release" ->
            appObject_current_release(src, fault)
      [] obj = "App" /\ field = "releases" -> appObject_releases(src, fault)
      [] obj = "App" /\ field = "formations" -> appObject_formations(src, fault)
      [] obj = "Deployment" /\ field = "id" -> deploymentObject_id(src)
      [] obj = "Deployment" /\ field = "app" -> deploymentObject_app(src, fault)
      [] obj = "Deployment" /\ field = "old_release" ->
            deploymentObject_old_release(src, fault)
      [] obj = "Deployment" /\ field = "new_release" ->
            deploymentObject_new_release(src, fault)
      [] obj = "Release" /\ field = "artifacts" ->
            releaseObject_artifacts(src, fault)
      [] obj = "Deployment" /\ field = "status" -> deploymentObject_status(src)
      [] obj = "Deployment" /\ field = "deploy_timeout" ->
            deploymentObject_deploy_timeout(src)
      [] obj = "Job" /\ field = "uuid" -> jobObject_uuid(src)
      [] obj = "Job" /\ field = "app" -> jobObject_app(src, fault)
      [] obj = "Job" /\ field = "release" -> jobObject_release(src, fault)
      [] obj = "Resource" /\ field = "id" -> resourceObject_id(src)
      [] obj = "Resource" /\ field = "provider" ->
            resourceObject_provider(src, fault)
      [] obj = "Route" /\ field = "app" -> routeObject_app(src, fault)
      [] obj = "Formation" /\ field = "app" -> formationObject_app(src, fault)
      [] obj = "Formation" /\ field = "release" ->
            formationObject_release(src, fault)
      [] obj = "AppDeletion" /\ field = "app" -> appDeletionObject_app(src, fault)
      [] obj = "AppDeletionEvent" /\ field = "app_deletion" ->
            appDeletionEventObject_app_deletion(src)
      [] obj = "AppDeletionEvent" /\ field = "error" ->
            appDeletionEventObject_error(src)
      [] obj = "AppRelease" /\ field = "prev_release" ->
            appReleaseObject_prev_release(src)
      [] obj = "AppRelease" /\ field = "release" -> appReleaseObject_release(src)
      [] obj = "DeploymentEvent" /\ field = "app" ->
            deploymentEventObject_app(src, fault)
      [] obj = "DeploymentEvent" /\ field = "deployment" ->
            deploymentEventObject_deployment(src, fault)
      [] obj = "DeploymentEvent" /\ field = "release" ->
            deploymentEventObject_release(src, fault)
      [] obj = "DeploymentEvent" /\ field = "status" ->
            deploymentEventObject_status(src)
      [] obj = "Scale" /\ field = "release" -> scaleObject_release(src, fault)
      [] obj = "ReleaseDeletion" /\ field = "app" ->
            releaseDeletionObject_app(src, fault)
      [] obj = "ReleaseDeletion" /\ field = "release" ->
            releaseDeletionObject_release(src, fault)
      [] obj = "ReleaseDeletion" /\ field = "remaining_apps" ->
            releaseDeletionObject_remaining_apps(src, fault)
      [] obj = "ReleaseDeletionEvent" /\ field = "release_deletion" ->
            releaseDeletionEventObject_release_deletion(src)
      [] obj = "ReleaseDeletionEvent" /\ field = "error" ->
            releaseDeletionEventObject_error(src)
      [] obj = "AppGarbageCollection" /\ field = "app" ->
            appGarbageCollectionObject_app(src, fault)
      [] obj = "AppGarbageCollection" /\ field = "deleted_releases" ->
            appGarbageCollectionObject_deleted_releases(src, fault)
      [] OTHER -> Return(StringVal(src.ID))

\* The typed wrappers (appFieldResolveFunc, eventFieldResolveFunc, ...): run
\* fn when the parent has the asserted type, and return (nil, nil) otherwise.
fieldResolveFunc_FailsOpen(obj, field, src, fault) ==
    IF src.shape = wrapperShape(obj) THEN fieldFn(obj, field, src, fault)
    ELSE Outcome(Nil, ErrOther, <<>>)

fieldResolveFunc(obj, field, src, fault) ==
    IF src.shape = wrapperShape(obj) THEN fieldFn(obj, field, src, fault)
    ELSE Fallback

\* The object type of an object-valued field (its Type), "scalar" otherwise.
fieldType(obj, field) ==
    CASE obj \in EventObjects /\ field = "data" -> eventDataType(obj)
      [] field = "app" -> "App"
      [] field \in {"release", "prev_release", "current_release",
                    "old_release", "new_release"} -> "Release"
      [] field = "deployment" -> "Deployment"
      [] field = "provider" -> "Provider"
      [] field = "app_deletion" -> "AppDeletion"
      [] field = "release_deletion" -> "ReleaseDeletion"
      [] OTHER -> "scalar"

\* A selection path: each field is resolved on the value the field before it
\* gave; nothing is selected on an absent value, an error or a panic.  Gives
\* the last field resolved, with its object, its parent and its outcome.
RECURSIVE resolvePath(_, _, _, _)
resolvePath(obj, src, path, fault) ==
    LET o == fieldResolveFunc(obj, Head(path), src, fault)
    IN  IF Len(path) = 1 \/ o.val = Nil \/ o.err # NoError \/ o.panicked
        THEN [obj |-> obj, field |-> Head(path), src |-> src, out |-> o]
        ELSE resolvePath(fieldType(obj, Head(path)), o.val, Tail(path), fault)

\* A value of the event interface: its object type comes from ResolveType, and
\* without one no field of it has a resolver to run.
resolveEvent(event, path, fault) ==
    LET t == ResolveType(event.object_type)
    IN  IF t = NilObject
        THEN [obj |-> NilObject, field |-> Head(path), src |-> event,
              out |-> Unresolved]
        ELSE resolvePath(t, event, path, fault)

\* ---------------------------------------------------------- sibling fields

\* Fields of one request resolved side by side.  The resolvers share the
\* events they are given (p.Source is a pointer) and the heap; o is the
\* request: its events, the heap of decoded records, and for each resolver
\* the event and field it resolves, how far it is, the record it decoded and
\* the locations it read and wrote.

alloc_Reuses(heap) == 1

\* obj = &ct.T{} in decodeEventObjectData: a record no one else holds.
alloc(heap) == Len(heap) + 1

\* data, err := decodeEventObjectData(event.ObjectType, event.Data)
dataDecode(o, i) ==
    LET p == o.procs[i]
        event == o.events[p.ev]
        d == decodeEventObjectData(event.object_type, event.data)
        a == alloc(o.heap)
        read == [p EXCEPT !.pc = "decoded", !.err = d.err,
                          !.reads = @ \cup {<<"event", p.ev>>}]
    IN  IF d.val = Nil THEN [o EXCEPT !.procs[i] = read]
        ELSE [o EXCEPT
                !.heap = IF a > Len(o.heap) THEN Append(o.heap, d.val)
                         ELSE [o.heap EXCEPT ![a] = d.val],
                !.procs[i] = [read EXCEPT !.addr = a,
                                          !.writes = @ \cup {<<"heap", a>>}]]

dataBackfill_PatchesEvent(o, i) ==
    LET p == o.procs[i]
        event == o.events[p.ev]
        data == IF p.addr = 0 THEN Nil ELSE o.heap[p.addr]
        ret == [p EXCEPT !.pc = "done",
                         !.out = Outcome([shape |-> "pointer", addr |-> p.addr],
                                         p.err, <<>>)]
    IN  IF event.object_type # EventTypeReleaseDeletion
        THEN [o EXCEPT !.procs[i] =
                [ret EXCEPT !.out = IF data = Nil
                                    THEN Outcome(Nil, p.err, <<>>) ELSE @]]
        ELSE IF \/ data = Nil
                \/ data.shape # "*ct.ReleaseDeletionEvent"
                \/ data.ReleaseDeletion = Nil
        THEN [o EXCEPT !.procs[i] = [p EXCEPT !.pc = "done",
                                              !.out = Panicked(<<>>)]]
        ELSE [o EXCEPT !.events[p.ev].app_id = data.ReleaseDeletion.AppID,
                       !.procs[i] = ret]

\* The rest of the data resolver: for a release deletion the type assertion
\* data.(*ct.ReleaseDeletionEvent), the read of rd.AppID and event.AppID, the
\* write of rd.AppID through the pointer; then return data, err.
dataBackfill(o, i) ==
    LET p == o.procs[i]
        event == o.events[p.ev]
        data == IF p.addr = 0 THEN Nil ELSE o.heap[p.addr]
        ret == [p EXCEPT !.pc = "done",
                         !.out = Outcome([shape |-> "pointer", addr |-> p.addr],
                                         p.err, <<>>)]
        rd == [ret EXCEPT !.reads = @ \cup {<<"event", p.ev>>,
                                            <<"heap", p.addr>>}]
    IN  IF event.object_type # EventTypeReleaseDeletion
        THEN [o EXCEPT !.procs[i] =
                [ret EXCEPT !.out = IF data = Nil
                                    THEN Outcome(Nil, p.err, <<>>) ELSE @]]
        ELSE IF \/ data = Nil
                \/ data.shape # "*ct.ReleaseDeletionEvent"
                \/ data.ReleaseDeletion = Nil
        THEN [o EXCEPT !.procs[i] = [p EXCEPT !.pc = "done",
                                              !.out = Panicked(<<>>)]]
        ELSE IF data.ReleaseDeletion.AppID = "" /\ event.app_id # ""
        THEN [o EXCEPT !.heap[p.addr].ReleaseDeletion.AppID = event.app_id,
                       !.procs[i] = [rd EXCEPT !.writes =
                                        @ \cup {<<"heap", p.addr>>}]]
        ELSE [o EXCEPT !.procs[i] = rd]

\* ------------------------------------------------------------------- inputs

EventsWithID(ids) ==
    [shape : {"*ct.Event"}, id : ids,
     object_type : eventObjectTypeEnum \cup OtherEventTypes,
     object_id : {"o1"}, app_id : {"", "a1"}, created_at : {"t1"},
     data : RawPayloads]

\* The events a lookup by id gives.
Events == EventsWithID({42})

EventFields == {"id", "object_type", "object_id", "created_at", "app", "data"}

\* The selections below the data field, by data object.
dataPaths(dataType) ==
    CASE dataType = "App" -> {<<"id">>, <<"current_release">>}
      [] dataType = "AppDeletionEvent" ->
            {<<"app_deletion">>, <<"error">>, <<"app_deletion", "app">>}
      [] dataType = "AppRelease" ->
            {<<"release">>, <<"prev_release">>, <<"release", "id">>}
      [] dataType = "DeploymentEvent" ->
            {<<"app">>, <<"deployment">>, <<"release">>, <<"status">>}
      [] dataType = "Job" -> {<<"uuid">>, <<"app">>, <<"release">>}
      [] dataType = "Scale" -> {<<"release">>}
      [] dataType = "ReleaseDeletionEvent" ->
            {<<"release_deletion">>, <<"error">>, <<"release_deletion", "app">>,
             <<"release_deletion", "release">>,
             <<"release_deletion", "remaining_apps">>}
      [] dataType = "Resource" -> {<<"id">>, <<"provider">>}
      [] dataType = "AppGarbageCollection" -> {<<"app">>, <<"deleted_releases">>}
      [] dataType = NilObject -> {}
      [] OTHER -> {<<"id">>}

eventPaths(event) ==
    {<<f>> : f \in EventFields}
    \cup {<<"data">> \o p :
             p \in dataPaths(eventDataType(ResolveType(event.object_type)))}

\* The names of the fields whose type is an entity or a list of entities.
RelationshipFields ==
    {"app", "release", "prev_release", "current_release", "old_release",
     "new_release", "deployment", "provider", "remaining_apps",
     "deleted_releases"}

\* The selections a query makes on one event: every path that names no
\* relationship field, those and the event's app, and every path.
selections(event) ==
    LET plain == {p \in eventPaths(event) :
                     \A i \in 1..Len(p) : p[i] \notin RelationshipFields}
    IN  {plain, plain \cup {<<"app">>}, eventPaths(event)}

\* The arguments of an event listing in which every argument is left out or
\* has the type the schema declares.
TypedEventsArgs ==
    [app_id : {Absent, StringVal("a1")},
     object_types : {Absent, ListVal(<<StringVal("release"), StringVal("app")>>)},
     object_id : {Absent, StringVal("o1")},
     before_id : {Absent, IntVal(2), IntVal(3)},
     since_id : {Absent, IntVal(1), IntVal(2)},
     count : {Absent, IntVal(1)}]

\* A value of another type than the argument's.
illTyped(name) ==
    CASE name \in {"before_id", "since_id", "count"} -> {StringVal("x")}
      [] name \in {"app_id", "object_id"} -> {IntVal(7)}
      [] name = "object_types" ->
            {StringVal("app"), ListVal(<<StringVal("app"), IntVal(7)>>)}

\* The arguments in which one argument has another type than the schema's.
IllTypedEventsArgs ==
    LET none == [app_id |-> Absent, object_types |-> Absent,
                 object_id |-> Absent, before_id |-> Absent,
                 since_id |-> Absent, count |-> Absent]
        every == [app_id |-> StringVal("a1"),
                  object_types |-> ListVal(<<StringVal("release"),
                                             StringVal("app")>>),
                  object_id |-> StringVal("o1"), before_id |-> IntVal(3),
                  since_id |-> IntVal(1), count |-> IntVal(1)]
    IN  UNION {{[base EXCEPT ![name] = v] : v \in illTyped(name)} :
                  base \in {none, every}, name \in DOMAIN none}

EventsArgs == TypedEventsArgs \cup IllTypedEventsArgs

\* The contents of the event log.
EventLogs == SUBSET (1..MaxEventID)

\* The id a repository gives an artifact that comes without one.
ArtifactIDs == {"art1"}

\* The values of an argument of an object scalar type, MetaObject or
\* EnvObject: left out, the map type the resolver asserts, the map a decoded
\* JSON variable is.
ObjectArgs == {Absent, MapOfStrings, MapOfValues("strings")}

\* The values of a processes argument: left out, a map of process types, a
\* map of counts, a map of strings, a map with a value JSON cannot represent,
\* the fields of an object literal.
ProcessesArgs ==
    {Absent, MapOfValues("objects"), MapOfValues("numbers"),
     MapOfValues("strings"), MapOfValues("NaN"), ObjectFields}

createArtifactArgs ==
    [id : {Absent} \cup {StringVal(a) : a \in ArtifactIDs},
     type : {StringVal("docker")}, uri : {StringVal("u1")}, meta : ObjectArgs]

\* The arguments of createRelease; a release that comes with an id comes with
\* an id no release has.
createReleaseArgs(ids) ==
    [id : {Absent} \cup {StringVal(r) : r \in ids},
     artifacts : {Absent, ListVal(<<StringVal("art1")>>)},
     env : ObjectArgs, meta : ObjectArgs, processes : ProcessesArgs]

putFormationArgs ==
    [app : {StringVal(a) : a \in AppIDs},
     release : {StringVal(r) : r \in ReleaseIDs},
     processes : ProcessesArgs,
     tags : {Absent, MapOfTags, MapOfValues("objects")}]

\* The parent_ref values of the routes: without the marker, the marker alone,
\* the marker before an app id, the marker twice, the marker inside.
ParentRefs ==
    {"", "a1", "controller/app", "controller/routes/a1", "controller/apps/",
     "controller/apps/a1", "controller/apps/a2",
     "controller/apps/controller/apps/a1", "x/controller/apps/a1"}

\* The parents of the entity objects a query reaches without an event.
entitySources(obj) ==
    CASE obj = "App" -> {[shape |-> "*ct.App", ID |-> a] : a \in AppIDs}
      [] obj = "Release" ->
            {[shape |-> "*ct.Release", ID |-> "r1", ArtifactIDs |-> ids] :
                ids \in UNION {[1..n -> {"art1", "art2"}] : n \in 0..MaxList}}
      [] obj = "Deployment" ->
            {[shape |-> "*ct.Deployment", ID |-> "d1", AppID |-> a,
              OldReleaseID |-> o, NewReleaseID |-> n, Status |-> "pending",
              DeployTimeout |-> 30] :
                a \in AppIDs, o \in ReleaseIDs \cup {""}, n \in ReleaseIDs}
      [] obj = "Job" ->
            {[shape |-> "*ct.Job", UUID |-> "j1", AppID |-> a, ReleaseID |-> r] :
                a \in AppIDs, r \in ReleaseIDs}
      [] obj = "Resource" ->
            {[shape |-> "*ct.Resource", ID |-> "res1", ProviderID |-> p] :
                p \in ProviderIDs}
      [] obj = "Formation" ->
            {[shape |-> "*ct.Formation", AppID |-> a, ReleaseID |-> r] :
                a \in AppIDs, r \in ReleaseIDs}
      [] obj = "Route" ->
            {[shape |-> "*router.Route", ID |-> "rt1", ParentRef |-> ref] :
                ref \in ParentRefs}

entityFields(obj) ==
    CASE obj = "App" -> {"id", "current_release", "releases", "formations"}
      [] obj = "Release" -> {"id", "artifacts"}
      [] obj = "Deployment" ->
            {"id", "app", "old_release", "new_release", "status",
             "deploy_timeout"}
      [] obj = "Job" -> {"uuid", "app", "release"}
      [] obj = "Resource" -> {"id", "provider"}
      [] obj = "Formation" -> {"app", "release"}
      [] obj = "Route" -> {"id", "app"}

EntityObjects ==
    {"App", "Release", "Deployment", "Job", "Resource", "Formation", "Route"}

\* Parents of another type than the one the object's wrapper asserts: the
\* parents of the other objects, and no parent at all.
foreignSources(obj) ==
    {Nil} \cup UNION {entitySources(o) : o \in EntityObjects \ {obj}}

\* The events whose fields are resolved side by side, and the pairs of fields.
SiblingEvents ==
    [shape : {"*ct.Event"}, id : {42}, object_type : {EventTypeReleaseDeletion},
     object_id : {"o1"}, app_id : {"", "a1"}, created_at : {"t1"},
     data : {[json |-> "null"],
             [json |-> "object", nested |-> FALSE, AppID |-> ""],
             [json |-> "object", nested |-> TRUE, AppID |-> ""],
             [json |-> "object", nested |-> TRUE, AppID |-> "a2"]}]
    \cup {[shape |-> "*ct.Event", id |-> 42, object_type |-> EventTypeApp,
            object_id |-> "o1", app_id |-> "a1", created_at |-> "t1",
            data |-> [json |-> "object", nested |-> FALSE, AppID |-> "a1"]]}

SiblingFields == {<<"data", "data">>, <<"data", "app">>, <<"id", "data">>}

\* The root fields that look an entity up by id, and their arguments.
RootLookups == {"formation", "expanded_formation", "job", "resource", "route"}

rootArgs(name) ==
    CASE name \in {"formation", "expanded_formation"} ->
            [app : AppIDs, release : ReleaseIDs]
      [] name = "job" -> [app : AppIDs, id : {"j1", "j2"}]
      [] name = "resource" -> [provider : ProviderIDs, id : {"res1", "res2"}]
      [] name = "route" ->
            [app : AppIDs, id : {"http/rt1", "tcp/rt1/x", "rt1", "/", ""}]

\* ------------------------------------------------------------------ actions

Idle == [kind |-> "idle"]

Init ==
    /\ appRepo = AppIDs
    /\ releaseRepo = ReleaseIDs
    /\ deploymentRepo = DeploymentIDs
    /\ providerRepo = ProviderIDs
    /\ op = Idle
    /\ out = Unresolved

\* One field of an entity is resolved.
ResolveEntityField(obj, field, src, fault) ==
    /\ op = Idle
    /\ op' = [kind |-> "field", obj |-> obj, field |-> field, src |-> src]
    /\ out' = fieldResolveFunc(obj, field, src, fault)
    /\ UNCHANGED repos

\* A payload is decoded under a discriminator.
DecodeEventObjectData(typ, data) ==
    /\ op = Idle
    /\ LET d == decodeEventObjectData(typ, data)
       IN  /\ op' = [kind |-> "decode", typ |-> typ, data |-> data]
           /\ out' = Outcome(d.val, d.err, <<>>)
    /\ UNCHANGED repos

\* One selection path of one event (the root event field) is resolved.
ResolveEvent(event, path, fault) ==
    /\ op = Idle
    /\ LET r == resolveEvent(event, path, fault)
       IN  /\ op' = [kind |-> "event", event |-> event, path |-> path,
                     obj |-> r.obj, field |-> r.field, src |-> r.src]
           /\ out' = r.out
    /\ UNCHANGED repos

\* A selection of several fields of one event is resolved: each path by the
\* resolvers of its fields, none touched for a path the selection leaves out.
ResolveSelection(event, sel, fault) ==
    /\ op = Idle
    /\ op' = [kind |-> "selection", event |-> event, sel |-> sel]
    /\ out' = [p \in sel |-> resolveEvent(event, p, fault)]
    /\ UNCHANGED repos

\* The events field of the root query is resolved.
ResolveRootEvents(args, log, fault) ==
    /\ op = Idle
    /\ op' = [kind |-> "listing", obj |-> "RootQuery", args |-> args,
              log |-> log, fault |-> fault]
    /\ out' = rootQuery_events(args, log, fault)
    /\ UNCHANGED repos

\* The events field of an app is resolved.
ResolveAppEvents(app, args, log, fault) ==
    /\ op = Idle
    /\ op' = [kind |-> "listing", obj |-> "App", src |-> app, args |-> args,
              log |-> log, fault |-> fault]
    /\ out' = appObject_events(app, args, log, fault)
    /\ UNCHANGED repos

\* The releases a resolution wrote.
added(outcome) ==
    {outcome.calls[i].arg.ID :
        i \in {j \in 1..Len(outcome.calls) :
                  /\ outcome.calls[j].repo = "releaseRepo"
                  /\ outcome.calls[j].method = "Add"
                  /\ outcome.calls[j].err = NoError}}

\* Two fields start to resolve: of one event (evs = <<1, 1>>) or of two events
\* of a list (evs = <<1, 2>>).
StartSiblings(e1, e2, evs, fields, fault) ==
    /\ op = Idle
    /\ evs = <<1, 1>> => e2 = e1
    /\ op' = [kind |-> "siblings", events |-> <<e1, e2>>,
              original |-> <<e1, e2>>, heap |-> <<>>, fault |-> fault,
              procs |-> [i \in 1..2 |->
                           [ev |-> evs[i], field |-> fields[i], pc |-> "start",
                            addr |-> 0, err |-> NoError, out |-> Unresolved,
                            reads |-> {}, writes |-> {}]]]
    /\ out' = Unresolved
    /\ UNCHANGED repos

\* One resolver takes its next step: the data resolver decodes, then
\* backfills and returns; another field's resolver runs whole.
SiblingStep(i) ==
    /\ op.kind = "siblings"
    /\ op.procs[i].pc # "done"
    /\ LET p == op.procs[i]
           next == IF p.field # "data"
                   THEN [op EXCEPT !.procs[i] =
                           [p EXCEPT !.pc = "done",
                                     !.reads = {<<"event", p.ev>>},
                                     !.out = resolveEvent(op.events[p.ev],
                                                 <<p.field>>, op.fault).out]]
                   ELSE IF p.pc = "start" THEN dataDecode(op, i)
                   ELSE dataBackfill(op, i)
       IN  /\ op' = next
           /\ out' = next.procs[i].out
    /\ UNCHANGED repos

\* A root lookup field is resolved.
ResolveRootField(name, args, fault1, fault2) ==
    /\ op = Idle
    /\ op' = [kind |-> "root", name |-> name, args |-> args]
    /\ out' = rootQuery(name, args, fault1, fault2)
    /\ UNCHANGED repos

\* The createArtifact mutation.
CreateArtifact(args, newID, fault) ==
    /\ op = Idle
    /\ op' = [kind |-> "mutation", name |-> "createArtifact", args |-> args,
              before |-> releaseRepo]
    /\ out' = rootMutation_createArtifact(args, newID, fault)
    /\ UNCHANGED repos

\* The createRelease mutation; the release repository has room for the
\* release.
CreateRelease(args, newID, fault) ==
    /\ op = Idle
    /\ newID \notin releaseRepo
    /\ LET o == rootMutation_createRelease(args, newID, fault)
       IN  /\ op' = [kind |-> "mutation", name |-> "createRelease",
                     args |-> args, before |-> releaseRepo]
           /\ out' = o
           /\ releaseRepo' = releaseRepo \cup added(o)
    /\ UNCHANGED <<appRepo, deploymentRepo, providerRepo>>

\* The putFormation mutation.
PutFormation(args, fault) ==
    /\ op = Idle
    /\ op' = [kind |-> "mutation", name |-> "putFormation", args |-> args,
              before |-> releaseRepo]
    /\ out' = rootMutation_putFormation(args, fault)
    /\ UNCHANGED repos

\* A payload that does not decode under the event's discriminator.
Corrupt(event) ==
    decodeEventObjectData(event.object_type, event.data).err # NoError

\* The events field gave a list; none of its elements is resolved yet.
ListEvents ==
    /\ op = Idle
    /\ op' = [kind |-> "events", idx |-> 0, seenCorrupt |-> FALSE]
    /\ out' = Unresolved
    /\ UNCHANGED repos

\* The next element of the list is resolved: every event field of it.
ResolveListElement(event, fault) ==
    /\ op.kind = "events"
    /\ op.idx < MaxList
    /\ event.id = op.idx + 1
    /\ op' = [kind |-> "element", idx |-> op.idx + 1,
              seenCorrupt |-> op.seenCorrupt, event |-> event]
    /\ out' = [f \in EventFields |-> resolveEvent(event, <<f>>, fault).out]
    /\ UNCHANGED repos

\* The list's resolution moves on from the element it resolved.
NextElement ==
    /\ op.kind = "element"
    /\ op' = [kind |-> "events", idx |-> op.idx,
              seenCorrupt |-> op.seenCorrupt \/ Corrupt(op.event)]
    /\ out' = Unresolved
    /\ UNCHANGED repos

\* The resolution ends.
Finish ==
    /\ op.kind \in {"field", "decode", "event", "events", "selection",
                  "listing", "mutation", "root", "siblings"}
    /\ op.kind = "siblings" => \A i \in 1..2 : op.procs[i].pc = "done"
    /\ op' = Idle
    /\ out' = Unresolved
    /\ UNCHANGED repos

\* Entities are deleted while the events that refer to them stay.
DeleteApp(a) ==
    /\ op = Idle
    /\ a \in appRepo
    /\ appRepo' = appRepo \ {a}
    /\ UNCHANGED <<releaseRepo, deploymentRepo, providerRepo, op, out>>

DeleteRelease(r) ==
    /\ op = Idle
    /\ r \in releaseRepo
    /\ releaseRepo' = releaseRepo \ {r}
    /\ UNCHANGED <<appRepo, deploymentRepo, providerRepo, op, out>>

DeleteDeployment(d) ==
    /\ op = Idle
    /\ d \in deploymentRepo
    /\ deploymentRepo' = deploymentRepo \ {d}
    /\ UNCHANGED <<appRepo, releaseRepo, providerRepo, op, out>>

DeleteProvider(p) ==
    /\ op = Idle
    /\ p \in providerRepo
    /\ providerRepo' = providerRepo \ {p}
    /\ UNCHANGED <<appRepo, releaseRepo, deploymentRepo, op, out>>

Next ==
    \/ /\ op = Idle
       /\ \E obj \in EntityObjects : \E field \in entityFields(obj) :
             \E src \in foreignSources(obj) : \E fault \in BOOLEAN :
                ResolveEntityField(obj, field, src, fault)
    \/ /\ op = Idle
       /\ \E obj \in EntityObjects : \E field \in entityFields(obj) :
             \E src \in entitySources(obj) : \E fault \in BOOLEAN :
                ResolveEntityField(obj, field, src, fault)
    \/ /\ op = Idle
       /\ \E event \in Events : \E path \in eventPaths(event) :
             \E fault \in BOOLEAN : ResolveEvent(event, path, fault)
    \/ /\ op = Idle
       /\ \E event \in Events : \E sel \in selections(event) :
             \E fault \in BOOLEAN : ResolveSelection(event, sel, fault)
    \/ /\ op = Idle
       /\ \E args \in EventsArgs : \E log \in EventLogs :
             \E fault \in BOOLEAN : ResolveRootEvents(args, log, fault)
    \/ /\ op = Idle
       /\ \E app \in entitySources("App") : \E args \in EventsArgs :
             \E log \in EventLogs : \E fault \in BOOLEAN :
                ResolveAppEvents(app, args, log, fault)
    \/ /\ op = Idle
       /\ \E name \in RootLookups : \E args \in rootArgs(name) :
             \E fault1 \in BOOLEAN : \E fault2 \in BOOLEAN :
                ResolveRootField(name, args, fault1, fault2)
    \/ /\ op = Idle
       /\ \E args \in createArtifactArgs : \E newID \in ArtifactIDs :
             \E fault \in BOOLEAN : CreateArtifact(args, newID, fault)
    \/ /\ op = Idle
       /\ \E newID \in ReleaseIDs \ releaseRepo :
             \E args \in createReleaseArgs({newID}) : \E fault \in BOOLEAN :
                CreateRelease(args, newID, fault)
    \/ /\ op = Idle
       /\ \E args \in putFormationArgs : \E fault \in BOOLEAN :
             PutFormation(args, fault)
    \/ /\ op = Idle
       /\ \E typ \in eventObjectTypeEnum \cup OtherEventTypes :
             \E data \in RawPayloads : DecodeEventObjectData(typ, data)
    \/ /\ op = Idle
       /\ \E e1 \in SiblingEvents : \E e2 \in SiblingEvents :
             \E evs \in {<<1, 1>>, <<1, 2>>} : \E fields \in SiblingFields :
                \E fault \in BOOLEAN : StartSiblings(e1, e2, evs, fields, fault)
    \/ \E i \in 1..2 : SiblingStep(i)
    \/ ListEvents
    \/ /\ op.kind = "events"
       /\ \E event \in EventsWithID({op.idx + 1}) : \E fault \in BOOLEAN :
             ResolveListElement(event, fault)
    \/ NextElement
    \/ Finish
    \/ \E a \in AppIDs : DeleteApp(a)
    \/ \E r \in ReleaseIDs : DeleteRelease(r)
    \/ \E d \in DeploymentIDs : DeleteDeployment(d)
    \/ \E p \in ProviderIDs : DeleteProvider(p)

Spec == Init /\ [][Next]_vars

\* ------------------------------------------------------------------- claims

\* The data field of an event of a discriminator, resolved on its own.
DataOf(typ) ==
    /\ op.kind = "event"
    /\ op.path = <<"data">>
    /\ op.event.object_type = typ

\* C1: every discriminator of the EventType enumeration has an event object in
\* the type-resolution switch and a payload shape in the decode switch, so an
\* event of an enumerated discriminator always gets its fields resolved and its
\* data never fails with the invalid-event-type error.
C1_RegistryComplete ==
    /\ \A d \in eventObjectTypeEnum :
          /\ ResolveType(d) \in EventObjects
          /\ decodeTarget(d) # InvalidShape
    /\ (op.kind = "event" /\ op.event.object_type \in eventObjectTypeEnum) =>
          /\ out.resolved
          /\ out.err # ErrInvalidEventType

C1_Witness ==
    /\ DataOf(EventTypeRouteDeletion)
    /\ out.resolved
    /\ out.err = "InvalidUnmarshalError"

\* C2: after a successful decode, every field selected below data is resolved
\* from the decoded value: no such field takes the typed wrapper's
\* parent-type-mismatch fallback.
C2_DecodeAgreesWithResolvers ==
    (op.kind = "event" /\ Len(op.path) > 1 /\ Head(op.path) = "data") =>
        ~out.fallback

\* C3: the data field of an event whose payload does not parse under its
\* discriminator's shape resolves to an error: it does not panic and does not
\* give a value or an absent value without an error.
C3_CorruptPayloadIsAnError ==
    (/\ op.kind = "event"
     /\ op.path = <<"data">>
     /\ op.event.object_type \in eventObjectTypeEnum
     /\ op.event.data.json \in {"malformed", "array"}) =>
        /\ ~out.panicked
        /\ out.err # NoError

\* C4: resolving data on a release-deletion event whose nested record has an
\* empty app id, the event's own app id being non-empty, gives a nested record
\* with the event's app id.
C4_BackfillFromEvent ==
    (/\ DataOf(EventTypeReleaseDeletion)
     /\ op.event.data.json = "object"
     /\ op.event.data.nested
     /\ op.event.data.AppID = ""
     /\ op.event.app_id # "") =>
        /\ ~out.panicked
        /\ out.err = NoError
        /\ out.val.ReleaseDeletion.AppID = op.event.app_id

C4_Witness ==
    /\ DataOf(EventTypeReleaseDeletion)
    /\ op.event.data = [json |-> "object", nested |-> TRUE, AppID |-> ""]
    /\ op.event.app_id = "a1"
    /\ ~out.panicked
    /\ out.val.ReleaseDeletion.AppID = "a1"

\* C5: resolving data on a release-deletion event whose nested record has a
\* non-empty app id gives the decoded value unchanged, whatever the event's own
\* app id is.
C5_BackfillKeepsNestedAppID ==
    (/\ DataOf(EventTypeReleaseDeletion)
     /\ op.event.data.json = "object"
     /\ op.event.data.nested
     /\ op.event.data.AppID # "") =>
        /\ ~out.panicked
        /\ out.err = NoError
        /\ out.val.ReleaseDeletion.AppID = op.event.data.AppID
        /\ out.val = populate("*ct.ReleaseDeletionEvent",
                              payloadKeys(op.event.data))

C5_Witness ==
    /\ DataOf(EventTypeReleaseDeletion)
    /\ op.event.data = [json |-> "object", nested |-> TRUE, AppID |-> "a2"]
    /\ op.event.app_id = "a1"
    /\ ~out.panicked
    /\ out.val.ReleaseDeletion.AppID = "a2"

\* C6: decoding under a discriminator outside the enumeration gives the
\* invalid-event-type error and the nil value, for every payload.
C6_UnknownDiscriminator ==
    (op.kind = "decode" /\ op.typ \notin eventObjectTypeEnum) =>
        /\ out.err = ErrInvalidEventType
        /\ out.val = Nil

C6_Witness ==
    /\ op.kind = "decode"
    /\ op.typ \in OtherEventTypes
    /\ op.data.json = "object"
    /\ out.err = ErrInvalidEventType
    /\ out.val = Nil

\* The event fields that are projections of the event record.
EventScalars == {"id", "object_type", "object_id", "created_at"}

projection(event, f) ==
    CASE f = "id" -> IntVal(event.id)
      [] f = "object_type" -> StringVal(event.object_type)
      [] f = "object_id" -> StringVal(event.object_id)
      [] f = "created_at" -> StringVal(event.created_at)

\* C7: in an event list, the element whose payload is corrupt or whose
\* discriminator is unknown still has its id, object_type, object_id and
\* created_at resolved to the event's own values, and an element that follows
\* it has every field resolved, without a panic.
C7_FailureConfinedToData ==
    /\ (op.kind = "element" /\ Corrupt(op.event)) =>
          \A f \in EventScalars : out[f] = Return(projection(op.event, f))
    /\ (op.kind = "element" /\ op.seenCorrupt /\ ~Corrupt(op.event)) =>
          \A f \in EventFields : out[f].resolved /\ ~out[f].panicked

\* The last collaborator call of the resolution came back with ErrNotFound.
ReportedNotFound ==
    /\ out.calls # <<>>
    /\ out.calls[Len(out.calls)].err = ErrNotFound

\* The fields through which an event refers to an entity: the event's own app,
\* the app of an app deletion, the app and the releases of an app garbage
\* collection.
EventReference ==
    /\ op.kind = "event"
    /\ \/ op.obj \in EventObjects /\ op.field = "app"
       \/ op.obj = "AppDeletion" /\ op.field = "app"
       \/ op.obj = "AppGarbageCollection"
          /\ op.field \in {"app", "deleted_releases"}

\* The entity the last collaborator call asked for existed and was deleted.
ReferenceDeleted ==
    /\ ReportedNotFound
    /\ LET c == out.calls[Len(out.calls)]
       IN  \/ c.repo = "appRepo" /\ c.arg \in AppIDs \ appRepo
           \/ c.repo = "releaseRepo" /\ c.arg \in ReleaseIDs \ releaseRepo

\* C8: a reference held by an event to an entity that has been deleted
\* resolves to absent: no error and no panic.
C8_DeletedReferenceIsAbsent ==
    (EventReference /\ ReferenceDeleted) =>
        /\ ~out.panicked
        /\ out.err = NoError
        /\ out.val = Nil

OptionalRelationships ==
    {<<"App", "current_release">>, <<"Deployment", "app">>,
     <<"Deployment", "old_release">>, <<"Deployment", "new_release">>,
     <<"Job", "release">>}

RequiredRelationships ==
    {<<"Job", "app">>, <<"Resource", "provider">>, <<"Formation", "app">>,
     <<"Formation", "release">>, <<"Scale", "release">>,
     <<"DeploymentEvent", "app">>, <<"DeploymentEvent", "deployment">>,
     <<"DeploymentEvent", "release">>}

\* A field of the given set was resolved by its own function.
Resolved(fields) ==
    /\ op.kind \in {"field", "event"}
    /\ <<op.obj, op.field>> \in fields
    /\ ~out.fallback

\* C9: an optional relationship makes one collaborator call; on ErrNotFound
\* the field is absent with no error, any other collaborator error is the
\* field's error, and a found entity is the field's value.
C9_OptionalAbsentOnNotFound ==
    Resolved(OptionalRelationships) =>
        /\ Len(out.calls) = 1
        /\ out.calls[1].err = ErrNotFound =>
              out.val = Nil /\ out.err = NoError
        /\ out.calls[1].err = ErrOther => out.err = ErrOther
        /\ out.calls[1].err = NoError => out.val # Nil /\ out.err = NoError

C9_Witness ==
    /\ Resolved({<<"App", "current_release">>})
    /\ op.src.ID = "a2"
    /\ "a2" \in appRepo
    /\ ReportedNotFound
    /\ out.val = Nil
    /\ out.err = NoError

\* C10: a required relationship whose collaborator reports ErrNotFound
\* resolves to that error, not to an absent value without an error.
C10_RequiredErrorOnNotFound ==
    (Resolved(RequiredRelationships) /\ ReportedNotFound) =>
        /\ out.err = ErrNotFound
        /\ Len(out.calls) = 1

C10_Witness ==
    /\ Resolved({<<"Job", "app">>})
    /\ op.src.AppID \notin appRepo
    /\ ReportedNotFound
    /\ out.err = ErrNotFound

\* The app field of a route, resolved by its own function.
RouteApp ==
    /\ op.kind = "field"
    /\ op.obj = "Route"
    /\ op.field = "app"
    /\ ~out.fallback

\* C11: the app of a route whose parent_ref does not start with the marker,
\* the empty parent_ref included, is absent with no error, and no collaborator
\* is called.
C11_RouteAppWithoutMarker ==
    (RouteApp /\ ~HasPrefix(op.src.ParentRef, RouteParentRefPrefix)) =>
        /\ out.val = Nil
        /\ out.err = NoError
        /\ ~out.panicked
        /\ out.calls = <<>>

C11_Witness ==
    /\ RouteApp
    /\ op.src.ParentRef = "x/controller/apps/a1"
    /\ "a1" \in appRepo
    /\ out.val = Nil
    /\ out.calls = <<>>

\* C12: the app of a route whose parent_ref starts with the marker makes one
\* app lookup, by the id that follows the first marker: the marker followed
\* by the id is the parent_ref.
C12_RouteAppWithMarker ==
    (RouteApp /\ HasPrefix(op.src.ParentRef, RouteParentRefPrefix)) =>
        /\ Len(out.calls) = 1
        /\ out.calls[1].repo = "appRepo"
        /\ out.calls[1].method = "Get"
        /\ RouteParentRefPrefix \o out.calls[1].arg = op.src.ParentRef

C12_Witness ==
    /\ RouteApp
    /\ op.src.ParentRef = "controller/apps/controller/apps/a1"
    /\ Len(out.calls) = 1
    /\ out.calls[1].arg = "controller/apps/a1"
    /\ out.err = ErrNotFound

\* C13: in a selection on an event, a path that names no relationship field
\* makes no collaborator call, so a selection of such paths only makes none;
\* a call is made only by a relationship field that the selection names.
C13_UnrequestedRelationshipsNotLoaded ==
    op.kind = "selection" =>
        \A p \in op.sel :
            /\ (\A i \in 1..Len(p) : p[i] \notin RelationshipFields) =>
                   out[p].out.calls = <<>>
            /\ out[p].out.calls # <<>> =>
                   /\ out[p].field \in RelationshipFields
                   /\ \E i \in 1..Len(p) : p[i] = out[p].field

C13_Witness ==
    /\ op.kind = "selection"
    /\ op.event.object_type = EventTypeAppDeletion
    /\ op.event.app_id = "a1"
    /\ op.sel \cap {<<"app">>, <<"data", "app_deletion", "app">>} = {}
    /\ {<<"id">>, <<"object_type">>, <<"data", "error">>} \subseteq op.sel
    /\ out[<<"data", "error">>].out.val = StringVal("")
    /\ \A p \in op.sel : out[p].out.resolved /\ out[p].out.calls = <<>>

\* The events field of the root query, resolved.
RootEvents == op.kind = "listing" /\ op.obj = "RootQuery"

\* C14: the events field of the root query, given arguments of the declared
\* types, makes one ListEvents call with the request's app_id, object_types
\* (same elements, same order), object_id, before_id, since_id and count (the
\* empty string, the empty list, nil and 0 for the ones left out) and returns
\* what that call returns.
C14_EventsPassThrough ==
    (RootEvents /\ op.args \in TypedEventsArgs) =>
        /\ Len(out.calls) = 1
        /\ out.calls[1].repo = "eventRepo"
        /\ out.calls[1].method = "ListEvents"
        /\ LET a == out.calls[1].arg
               given(name) == op.args[name] # Absent
           IN  /\ a.appID = IF given("app_id") THEN op.args.app_id.v ELSE ""
               /\ a.objectID =
                     IF given("object_id") THEN op.args.object_id.v ELSE ""
               /\ Len(a.objectTypes) =
                     IF given("object_types") THEN Len(op.args.object_types.v)
                     ELSE 0
               /\ \A i \in 1..Len(a.objectTypes) :
                     a.objectTypes[i] = op.args.object_types.v[i].v
               /\ IF given("before_id")
                  THEN a.beforeID # Nil /\ a.beforeID.v = op.args.before_id.v
                  ELSE a.beforeID = Nil
               /\ IF given("since_id")
                  THEN a.sinceID # Nil /\ a.sinceID.v = op.args.since_id.v
                  ELSE a.sinceID = Nil
               /\ a.count = IF given("count") THEN op.args.count.v ELSE 0
               /\ out = eventRepoListEvents(op.log, a.appID, a.objectTypes,
                                            a.objectID, a.beforeID, a.sinceID,
                                            a.count, op.fault)

C14_Witness ==
    /\ RootEvents
    /\ \A name \in DOMAIN op.args : op.args[name] # Absent
    /\ op.args \in TypedEventsArgs
    /\ op.args.before_id = IntVal(3)
    /\ op.args.since_id = IntVal(1)
    /\ op.log = 1..3
    /\ Len(out.calls) = 1
    /\ out.calls[1].arg.objectTypes = <<"release", "app">>
    /\ out.calls[1].arg.count = 1
    /\ out.val = ListVal(<<2>>)

\* C15: an event listing with before_id X gives no event of id X or more,
\* with since_id Y no event of id Y or less, with both only events between
\* them, whatever the event log holds.
C15_CursorBounds ==
    (op.kind = "listing" /\ out.val # Nil) =>
        \A i \in 1..Len(out.val.v) :
            /\ out.val.v[i] \in op.log
            /\ op.args.before_id.shape = "int" =>
                  out.val.v[i] < op.args.before_id.v
            /\ op.args.since_id.shape = "int" =>
                  out.val.v[i] > op.args.since_id.v

C15_Witness ==
    /\ RootEvents
    /\ op.args.before_id = IntVal(3)
    /\ op.args.since_id = IntVal(1)
    /\ op.args.count = Absent
    /\ op.log = 1..3
    /\ out.val = ListVal(<<2>>)

\* An argument of the listing has a value of another type than the schema's.
SuppliedIllTyped ==
    \/ \E name \in {"before_id", "since_id", "count"} :
          op.args[name] # Absent /\ op.args[name].shape # "int"
    \/ \E name \in {"app_id", "object_id"} :
          op.args[name] # Absent /\ op.args[name].shape # "string"
    \/ objectTypesPanics(op.args.object_types)

Mutation(name) == op.kind = "mutation" /\ op.name = name

\* C17: createRelease with a processes argument that does not deserialize
\* into a map of process types returns an error without a value and writes
\* nothing, whatever the other arguments: releaseRepo.Add is not called and
\* the release repository is as before.
C17_BadProcessesNoWrite ==
    (/\ Mutation("createRelease")
     /\ op.args.processes \in {MapOfValues("numbers"), MapOfValues("strings"),
                                MapOfValues("NaN"), ObjectFields}) =>
        /\ \A i \in 1..Len(out.calls) : out.calls[i].method # "Add"
        /\ releaseRepo = op.before
        /\ ~out.panicked
        /\ out.err # NoError
        /\ out.val = Nil

\* The arguments of the mutation pass validation: the processes argument, if
\* any, deserializes into the map the mutation stores.
PassesValidation ==
    \/ Mutation("createArtifact")
    \/ Mutation("createRelease")
       /\ op.args.processes \in {Absent, MapOfValues("objects")}
    \/ Mutation("putFormation")
       /\ op.args.processes \in {Absent, MapOfValues("numbers")}

\* C18: a mutation whose arguments pass validation makes one collaborator
\* write and returns the entity as the collaborator stored it, and returns it
\* only when the write succeeded.
C18_OneWriteReturnsPersisted ==
    PassesValidation =>
        /\ ~out.panicked
        /\ Len(out.calls) = 1
        /\ out.calls[1].method = "Add"
        /\ IF out.calls[1].err = NoError
           THEN out.err = NoError /\ out.val = out.calls[1].arg
           ELSE out.err # NoError /\ out.val = Nil

\* The list-valued relationship fields.
ListRelationships ==
    {<<"App", "releases">>, <<"App", "formations">>,
     <<"ReleaseDeletion", "remaining_apps">>,
     <<"AppGarbageCollection", "deleted_releases">>}

\* C19: a list-valued relationship field makes one collaborator call each
\* time it is resolved, however many elements the list has.
C19_ListFieldsMakeOneCall ==
    Resolved(ListRelationships) => Len(out.calls) = 1

\* The discriminators that share a queryable type.
ResourceTypes ==
    {EventTypeResource, EventTypeResourceDeletion, EventTypeResourceAppDeletion}

RouteTypes == {EventTypeRoute, EventTypeRouteDeletion}

\* The two switches map the resource discriminators alike, the route
\* discriminators alike, and no other two discriminators to one type.
SharedTypes ==
    /\ \A d \in ResourceTypes :
          /\ ResolveType(d) = ResolveType(EventTypeResource)
          /\ decodeTarget(d) = decodeTarget(EventTypeResource)
    /\ \A d \in RouteTypes :
          /\ ResolveType(d) = ResolveType(EventTypeRoute)
          /\ decodeTarget(d) = decodeTarget(EventTypeRoute)
    /\ \A d, e \in eventObjectTypeEnum :
          (d # e /\ ResolveType(d) = ResolveType(e)) =>
             \/ {d, e} \subseteq ResourceTypes
             \/ {d, e} \subseteq RouteTypes

\* C20: resource, resource deletion and resource app deletion have one
\* queryable type and one payload shape, route and route deletion have one
\* queryable type and one payload shape, and no other two discriminators have
\* the same queryable type; events and decodes of these discriminators come
\* out accordingly.
C20_ManyToOne ==
    /\ SharedTypes
    /\ (op.kind = "event" /\ op.path = <<"id">>) =>
          /\ op.event.object_type \in ResourceTypes => op.obj = "EventResource"
          /\ op.event.object_type \in RouteTypes => op.obj = "EventRoute"
    /\ (op.kind = "decode" /\ op.typ \in ResourceTypes /\ out.err = NoError) =>
          out.val.shape = "*ct.Resource"

C20_Witness ==
    /\ op.kind = "decode"
    /\ op.typ = EventTypeResourceDeletion
    /\ op.data.json = "object"
    /\ out.err = NoError
    /\ out.val.shape = "*ct.Resource"

\* C21: resolving the fields of an event leaves the event as it was: its id,
\* object_type, object_id, app_id, created_at and raw data are, at every step
\* of every resolver and after the backfill of a release deletion, those it
\* had when the resolution started.
C21_EventsNotMutated ==
    op.kind = "siblings" =>
        /\ op.events = op.original
        /\ \A i \in 1..2 : \A w \in op.procs[i].writes : w[1] # "event"

C21_Witness ==
    /\ op.kind = "siblings"
    /\ \A i \in 1..2 : op.procs[i].pc = "done" /\ op.procs[i].field = "data"
    /\ op.procs[1].ev = op.procs[2].ev
    /\ op.events[1].object_type = EventTypeReleaseDeletion
    /\ op.events[1].app_id = "a1"
    /\ op.events[1].data = [json |-> "object", nested |-> TRUE, AppID |-> ""]
    /\ \A i \in 1..2 :
          /\ op.procs[i].writes = {<<"heap", op.procs[i].addr>>}
          /\ op.heap[op.procs[i].addr].ReleaseDeletion.AppID = "a1"

\* What resolver i of a finished request gave, with the record it points to.
SiblingResult(i) ==
    LET o == op.procs[i].out
    IN  IF o.val # Nil /\ o.val.shape = "pointer"
        THEN [o EXCEPT !.val = op.heap[o.val.addr]] ELSE o

\* C22: fields resolved side by side, in any interleaving of their steps, give
\* what each gives resolved alone; no resolver writes a location that another
\* resolver reads or writes, and two data resolvers do not decode into the
\* same record.
C22_SiblingsIndependent ==
    op.kind = "siblings" =>
        /\ \A i \in 1..2 : \A j \in (1..2) \ {i} :
              /\ op.procs[i].writes
                    \cap (op.procs[j].reads \cup op.procs[j].writes) = {}
              /\ op.procs[i].addr # 0 => op.procs[i].addr # op.procs[j].addr
        /\ (\A i \in 1..2 : op.procs[i].pc = "done") =>
              \A i \in 1..2 :
                 SiblingResult(i) =
                     resolveEvent(op.original[op.procs[i].ev],
                                  <<op.procs[i].field>>, op.fault).out

C22_Witness ==
    /\ op.kind = "siblings"
    /\ \A i \in 1..2 : op.procs[i].pc = "done" /\ op.procs[i].field = "data"
    /\ op.procs[1].ev # op.procs[2].ev
    /\ \A k \in 1..2 : op.events[k].object_type = EventTypeReleaseDeletion
    /\ op.events[1].app_id = "a1"
    /\ op.events[1].data = [json |-> "object", nested |-> TRUE, AppID |-> ""]
    /\ op.events[2].data = [json |-> "object", nested |-> TRUE, AppID |-> "a2"]
    /\ op.procs[1].addr = 2
    /\ op.procs[2].addr = 1
    /\ op.procs[1].writes = {<<"heap", 2>>}
    /\ SiblingResult(1).val.ReleaseDeletion.AppID = "a1"
    /\ SiblingResult(2).val.ReleaseDeletion.AppID = "a2"

\* C24: the data field of a release-deletion event whose payload parses but
\* has no nested deletion record (null, or left out) does not crash: it gives
\* a value or an error.
C24_MissingNestedRecordNoCrash ==
    (/\ DataOf(EventTypeReleaseDeletion)
     /\ \/ op.event.data.json = "null"
        \/ op.event.data.json = "object" /\ ~op.event.data.nested) =>
        /\ ~out.panicked
        /\ out.val # Nil \/ out.err # NoError

\* C25: listArtifacts, when the repository answers, gives without a panic a
\* list as long as the list of ids, whose i-th element is the artifact held
\* under the i-th id, absent when the repository does not hold it.
C25_ListArtifactsPreservesOrderAndLength ==
    (/\ Resolved({<<"Release", "artifacts">>})
     /\ op.kind = "field"
     /\ \A i \in 1..Len(out.calls) : out.calls[i].err = NoError) =>
        /\ ~out.panicked
        /\ out.err = NoError
        /\ out.val # Nil
        /\ Len(out.val.v) = Len(op.src.ArtifactIDs)
        /\ \A i \in 1..Len(op.src.ArtifactIDs) :
              out.val.v[i] = IF op.src.ArtifactIDs[i] = "art1"
                             THEN [shape |-> "*ct.Artifact", ID |-> "art1"]
                             ELSE Nil

\* C26: the root route field, given an id without the "/" between route
\* type and route id, does not crash: it fails with an error and calls no
\* collaborator.
C26_RouteIdWithoutSeparatorRejected ==
    (/\ op.kind = "root"
     /\ op.name = "route"
     /\ \A i \in 1..Len(op.args.id) : SubSeq(op.args.id, i, i) # "/") =>
        /\ ~out.panicked
        /\ out.err # NoError
        /\ out.val = Nil
        /\ out.calls = <<>>

\* The app or provider lookup that a two-step root field starts with.
FirstLookup ==
    IF op.name = "resource" THEN Call("providerRepo", "Get", op.args.provider)
    ELSE Call("appRepo", "Get", op.args.app)

SecondRepo ==
    CASE op.name \in {"formation", "expanded_formation"} -> "formationRepo"
      [] op.name = "job" -> "jobRepo"
      [] op.name = "resource" -> "resourceRepo"

\* C29: the root formation, expanded_formation, job and resource fields look
\* up the named app (or provider) first; when that fails its error is the
\* field's error and no second call is made, and only when it succeeds is the
\* second lookup made, after it.
C29_TwoStepLookupsShortCircuit ==
    (op.kind = "root" /\ op.name # "route") =>
        /\ Len(out.calls) >= 1
        /\ [out.calls[1] EXCEPT !.err = NoError] = FirstLookup
        /\ out.calls[1].err # NoError =>
              /\ Len(out.calls) = 1
              /\ out.err = out.calls[1].err
              /\ out.val = Nil
        /\ out.calls[1].err = NoError =>
              /\ Len(out.calls) = 2
              /\ out.calls[2].repo = SecondRepo
              /\ out.err = out.calls[2].err

C29_Witness ==
    /\ op.kind = "root"
    /\ op.name = "job"
    /\ op.args.app \notin appRepo
    /\ op.args.id = "j1"
    /\ out.err = ErrNotFound
    /\ Len(out.calls) = 1

\* The events field of an app, resolved.
AppEvents == op.kind = "listing" /\ op.obj = "App"

C28_DeployTimeoutProjection ==
    (Resolved({<<"Deployment", "deploy_timeout">>}) /\ op.kind = "field") =>
        out = Return(IntVal(op.src.DeployTimeout))

\* C30: a typed field resolver given a parent of another type than the one it
\* asserts gives absent with no error; its function is not run and no
\* collaborator is called.
C30_WrongParentFailsClosed ==
    (/\ op.kind \in {"field", "event"}
     /\ op.obj # NilObject
     /\ op.src.shape # wrapperShape(op.obj)) =>
        /\ out.fallback
        /\ out.val = Nil
        /\ out.err = NoError
        /\ ~out.panicked
        /\ out.calls = <<>>

C30_Witness ==
    /\ op.kind = "field"
    /\ op.obj = "Formation"
    /\ op.field = "app"
    /\ op.src.shape = "*ct.App"
    /\ out.fallback
    /\ out.calls = <<>>

====
